---- MODULE Spec2Model ----
(***************************************************************************)
(* Netzer backend: the FastAPI handlers of src/app.py and                  *)
(* src/routes_valr_trade.py as a state machine over the Supabase tables    *)
(* they write (deposits, withdrawals, valr_deposits, executions) and the   *)
(* orders they place at VALR.                                              *)
(*                                                                         *)
(* Money is held in integer cents: 100.00 ZAR is 10000.  The handlers      *)
(* compute on Python floats (IEEE-754 binary64); WithinTolerance below     *)
(* reproduces the binary64 result of the comparison exactly.               *)
(*                                                                         *)
(* A handler is one step: its requests to Supabase and VALR are taken in   *)
(* the order the code makes them, with nothing of another call between.    *)
(***************************************************************************)
EXTENDS Integers, Sequences, FiniteSets, TLC

VARIABLES
  VALR_KEYS,      \* VALR_API_KEY and VALR_API_SECRET are set (process environment)
  valr_history,   \* VALR's ZAR deposit history: the credits it reports
  valr_orders,    \* market orders VALR has accepted, in submission order
  clock,          \* time.time(), in whole seconds
  deposits,       \* Supabase table "deposits": rows in insertion order
  withdrawals,    \* Supabase table "withdrawals": rows in insertion order
  valr_deposits,  \* Supabase table "valr_deposits": rows keyed by valr_id
  executions,     \* Supabase table "executions": rows in insertion order
  lastOp          \* the last handler call: what it was given, read and returned

vars == <<VALR_KEYS, valr_history, valr_orders, clock, deposits, withdrawals,
          valr_deposits, executions, lastOp>>

\* ------------------------------------------------------------------ bounds
MaxDeposits == 2
MaxWithdrawals == 2
MaxOrders == 1
MaxClock == 1

MaxRows == 4

\* ------------------------------------------------------------------ values
\* Python None / JSON null.
None == "None"

\* How an HTTP call to a collaborator (Supabase, VALR) can end: a status below
\* 300, a status of 300 or more, or an exception raised by httpx.
HttpOutcomes == {"accepted", "rejected", "raised"}

Abs(x) == IF x < 0 THEN 0 - x ELSE x

Max(a, b) == IF a >= b THEN a ELSE b

\* ------------------------------------------------------ binary64 arithmetic
\* float(c / 100) for an integer number of cents c is the double nearest to
\* the decimal: with e = floor(log2(|c|/100)) and s = 52 - e it is
\* RN(|c| * 2^s / 100) / 2^s, so it differs from the decimal by exactly
\* RoundResidue(c) / (100 * 2^s).

RECURSIVE Pow2(_)
Pow2(n) == IF n = 0 THEN 1 ELSE 2 * Pow2(n - 1)

\* 2^n mod 100, computed without leaving 32 bits.
RECURSIVE Pow2Mod100(_)
Pow2Mod100(n) == IF n = 0 THEN 1 ELSE (2 * Pow2Mod100(n - 1)) % 100

\* The binary exponent of m / 100 (m > 0 cents): counted up from e, where
\* p = 100 * 2^e <= m, for m >= 100 ...
RECURSIVE ExponentUp(_, _, _)
ExponentUp(m, e, p) == IF 2 * p <= m THEN ExponentUp(m, e + 1, 2 * p) ELSE e

\* ... and down from -k, where q = m * 2^k, for m < 100.
RECURSIVE ExponentDown(_, _, _)
ExponentDown(m, k, q) == IF q >= 100 THEN 0 - k ELSE ExponentDown(m, k + 1, 2 * q)

\* Number of mantissa bits of a binary64 after the leading one.
MantissaBits == 52

\* s such that the double nearest to c / 100 is an integer multiple of 2^-s.
\* Zero is exact at every scale.
BinadeShift(c) ==
  IF c = 0 THEN MantissaBits - 1
  ELSE IF Abs(c) >= 100 THEN MantissaBits - ExponentUp(Abs(c), 0, 100)
  ELSE MantissaBits - ExponentDown(Abs(c), 1, 2 * Abs(c))

\* (c * 2^s) - 100 * RN(c * 2^s / 100): the rounding error of float(c / 100) in
\* units of 1 / (100 * 2^s).  c * 2^s is a multiple of 4, so its residue mod
\* 100 is never 50 and round-half-even never has a tie to break.
RoundResidue(c) ==
  LET r == ((Abs(c) % 100) * Pow2Mod100(BinadeShift(c))) % 100
      d == IF r < 50 THEN r ELSE r - 100
  IN  IF c < 0 THEN 0 - d ELSE d

\* The tolerance of the matching loop: 5 currency units, in cents.
TOLERANCE == 500

\* abs(float(s["amount_zar"]) - amount) <= 5 on binary64, for amounts of
\* s_amount and amount cents.  The difference of the two doubles is
\* (s_amount - amount)/100 plus the two rounding errors, each far below one
\* cent, and the rounded difference is <= 5.0 exactly when the unrounded one is
\* <= 5 + 2^-51 (half an ulp of 5.0, whose mantissa is even).  So only a
\* decimal difference of exactly 5.00 is decided by the rounding errors;
\* there, with S the finer of the two scales (at least 51) the test is
\* sign * (g2 * 2^(S-s2) - g1 * 2^(S-s1)) <= 100 * 2^(S-51).
WithinTolerance(s_amount, amount) ==
  LET K   == s_amount - amount
      s1  == BinadeShift(s_amount)
      s2  == BinadeShift(amount)
      S   == Max(Max(s1, s2), MantissaBits - 1)
      sgn == IF K > 0 THEN 1 ELSE 0 - 1
      err == sgn * (RoundResidue(amount) * Pow2(S - s2)
                    - RoundResidue(s_amount) * Pow2(S - s1))
  IN  IF Abs(K) # TOLERANCE THEN Abs(K) < TOLERANCE
      ELSE err <= 100 * Pow2(S - (MantissaBits - 1))

\* ------------------------------------------------------------------ inputs
\* Bodies the Stitch webhook can be called with: pydantic's Deposit model
\* asks for two strings and a float and nothing more.
Deposit(c, a, t) == [client_id |-> c, amount_zar |-> a, stitch_txid |-> t]

DepositInputs ==
  { Deposit("c1", 10000, "tx1"),
    Deposit("c2", 10000, "tx2"),
    Deposit("c1", 0, "tx2"),
    Deposit("", 10000, "tx1"),
    Deposit("c2", 10000, "") }

\* Bodies the withdraw webhook can be called with.
Withdrawal(c, a, t) == [client_id |-> c, amount_zar |-> a, withdraw_txid |-> t]

WithdrawalInputs ==
  { Withdrawal("c1", 10000, "w1"),
    Withdrawal("c2", 5000, "w2") }

\* A ZAR credit as VALR reports it: the id VALR gave it and its amount.
Credit(id, amount) == [id |-> id, amount |-> amount]

\* Balances VALR can report, in hundredths of a unit.
ZarBalances == {999, 1000}

UsdtBalances == {99, 100}

\* ------------------------------------------------------------------ state
Init ==
  /\ VALR_KEYS \in BOOLEAN
  /\ valr_history = {Credit("v1", 9600), Credit("v2", 10000)}
  /\ valr_orders = <<>>
  /\ clock = 0
  /\ deposits = <<>>
  /\ withdrawals = <<>>
  /\ valr_deposits = {}
  /\ executions = <<>>
  /\ lastOp = [op |-> "none"]

\* The audit trail.  Neither source file sends a request to an audit table
\* or writes an audit entry anywhere else, so it is empty in every state.
audit_events == <<>>

\* ---------------------------------------------------------------- app.py
\* datetime.utcnow().isoformat() of a row about to be added to table: it is
\* later than the stamp of every row already there, and is kept as the row's
\* rank in time.
UtcNow(table) == Len(table) + 1

\* The write sent as an update without a filter: every row already stored
\* is put to "failed" before the new one is added.
InsertOverwriting(table, record) ==
  Append([i \in DOMAIN table |-> [table[i] EXCEPT !.status = "failed"]], record)

\* POST /rest/v1/<table> answered with a status below 300: the record becomes
\* a new row, and the rows already stored are left as they are.
Insert(table, record) == Append(table, record)

\* POST /webhooks/stitch
handle_stitch_webhook ==
  \E deposit \in DepositInputs, post \in HttpOutcomes :
    LET record == [client_id   |-> deposit.client_id,
                   amount_zar  |-> deposit.amount_zar,
                   stitch_txid |-> deposit.stitch_txid,
                   timestamp   |-> UtcNow(deposits),
                   status      |-> "completed"]
    IN  /\ post = "accepted" => Len(deposits) < MaxDeposits
        /\ deposits' = IF post = "accepted" THEN Insert(deposits, record)
                       ELSE deposits
        /\ lastOp' = [op     |-> "handle_stitch_webhook",
                      req    |-> deposit,
                      raised |-> post = "raised",
                      ok     |-> post = "accepted",
                      data   |-> IF post = "accepted" THEN <<record>> ELSE <<>>]
        /\ UNCHANGED <<VALR_KEYS, valr_history, valr_orders, clock,
                       withdrawals, valr_deposits, executions>>

\* POST /webhooks/withdraw
handle_withdraw_request ==
  \E withdraw \in WithdrawalInputs, post \in HttpOutcomes :
    LET record == [client_id     |-> withdraw.client_id,
                   amount_zar    |-> withdraw.amount_zar,
                   withdraw_txid |-> withdraw.withdraw_txid,
                   timestamp     |-> UtcNow(withdrawals),
                   status        |-> "pending"]
    IN  /\ post = "accepted" => Len(withdrawals) < MaxWithdrawals
        /\ withdrawals' = IF post = "accepted" THEN Insert(withdrawals, record)
                          ELSE withdrawals
        /\ lastOp' = [op     |-> "handle_withdraw_request",
                      req    |-> withdraw,
                      raised |-> post = "raised",
                      ok     |-> post = "accepted",
                      data   |-> IF post = "accepted" THEN <<record>> ELSE <<>>]
        /\ UNCHANGED <<VALR_KEYS, valr_history, valr_orders, clock, deposits,
                       valr_deposits, executions>>

\* The columns the matching run selects: client_id, amount_zar, stitch_txid,
\* timestamp (not status).
Selected(row) ==
  [client_id   |-> row.client_id,
   amount_zar  |-> row.amount_zar,
   stitch_txid |-> row.stitch_txid,
   timestamp   |-> row.timestamp]

\* The orders in which a table of n rows can come back from a GET that asks
\* for none.
Orderings(n) ==
  {p \in [1..n -> 1..n] : \A i, j \in 1..n : p[i] = p[j] => i = j}

\* What GET /rest/v1/deposits?select=... can answer with a status below 300.
StitchReads ==
  { [i \in 1..Len(deposits) |-> Selected(deposits[p[i]])] :
      p \in Orderings(Len(deposits)) }

\* The inner loop with its tolerance test lost: the first row returned is
\* taken whatever its amount.
FirstMatchAnyAmount(stitch_data, amount) ==
  IF stitch_data = <<>>
  THEN [client_id |-> None, stitch_txid |-> None]
  ELSE [client_id   |-> Head(stitch_data).client_id,
        stitch_txid |-> Head(stitch_data).stitch_txid]

\* The inner loop of get_valr_deposits: the first row of stitch_data whose
\* amount is within tolerance of the credit's, or None for both fields.
RECURSIVE FirstMatch(_, _)
FirstMatch(stitch_data, amount) ==
  IF stitch_data = <<>>
  THEN [client_id |-> None, stitch_txid |-> None]
  ELSE IF WithinTolerance(Head(stitch_data).amount_zar, amount)
       THEN [client_id   |-> Head(stitch_data).client_id,
             stitch_txid |-> Head(stitch_data).stitch_txid]
       ELSE FirstMatch(Tail(stitch_data), amount)

\* The record built for one VALR credit v (currency, status, created_at and
\* description are copied from v untouched and left out here).
MatchedRecord(v, stitch_data) ==
  LET m == FirstMatch(stitch_data, v.amount)
  IN  [valr_id             |-> v.id,
       amount              |-> v.amount,
       client_id           |-> m.client_id,
       matched_stitch_txid |-> m.stitch_txid]

\* POST /rest/v1/valr_deposits with Prefer: resolution=merge-duplicates: a row
\* with the same valr_id is replaced, any other is added.
Upsert(table, records) ==
  {r \in table : \A n \in records : n.valr_id # r.valr_id} \cup records

\* What get_valr_deposits returns when it gives up: before the VALR fetch, on
\* its status, or from the except clause.
ValrFailure(error) ==
  [op |-> "get_valr_deposits", ok |-> FALSE, error |-> error, inserted |-> 0,
   valr_deposits |-> {}, read |-> "none", upsert |-> "none"]

\* GET /valr/deposits.  lastOp keeps, beside the returned ok, inserted and
\* valr_deposits, how the store answered the read of the deposits table and
\* the upsert; the handler does not look at the latter.
get_valr_deposits ==
  /\ UNCHANGED <<VALR_KEYS, valr_history, valr_orders, clock, deposits,
                 withdrawals, executions>>
  /\ IF ~VALR_KEYS
     THEN /\ lastOp' = ValrFailure("VALR API keys not set in environment")
          /\ UNCHANGED valr_deposits
     ELSE \E history \in HttpOutcomes :
       IF history # "accepted"
       THEN /\ lastOp' = ValrFailure(IF history = "rejected" THEN "VALR HTTP"
                                     ELSE "exception")
            /\ UNCHANGED valr_deposits
       ELSE \E valr_data \in SUBSET valr_history, read \in HttpOutcomes :
         IF read = "raised"
         THEN /\ lastOp' = ValrFailure("exception")
              /\ UNCHANGED valr_deposits
         ELSE \E stitch_data \in (IF read = "accepted" THEN StitchReads
                                  ELSE {<<>>}),
                 upsert \in HttpOutcomes :
           LET matched_records ==
                 {MatchedRecord(v, stitch_data) : v \in valr_data}
           IN  /\ valr_deposits' =
                    IF upsert = "accepted"
                    THEN Upsert(valr_deposits, matched_records)
                    ELSE valr_deposits
               /\ lastOp' =
                    IF upsert = "raised" THEN ValrFailure("exception")
                    ELSE [op            |-> "get_valr_deposits",
                          ok            |-> TRUE,
                          error         |-> None,
                          inserted      |-> Cardinality(matched_records),
                          valr_deposits |-> matched_records,
                          read          |-> read,
                          upsert        |-> upsert]

\* ---------------------------------------------------- routes_valr_trade.py
PAIR == "USDTZAR"

\* MIN_ZAR, MIN_USDT = 10.0, 1.0, in hundredths.
MIN_ZAR == 1000

MIN_USDT == 100

\* Time passes.
Tick ==
  /\ clock < MaxClock
  /\ clock' = clock + 1
  /\ UNCHANGED <<VALR_KEYS, valr_history, valr_orders, deposits, withdrawals,
                 valr_deposits, executions, lastOp>>

\* The two tests taken in the other order: USDT is sold whenever there is
\* enough of it.
TradeSideUsdtFirst(zar, usdt) ==
  IF usdt >= MIN_USDT THEN "SELL"
  ELSE IF zar >= MIN_ZAR THEN "BUY" ELSE "NOOP"

\* if zar >= MIN_ZAR: BUY  elif usdt >= MIN_USDT: SELL  else: NOOP
TradeSide(zar, usdt) ==
  IF zar >= MIN_ZAR THEN "BUY"
  ELSE IF usdt >= MIN_USDT THEN "SELL" ELSE "NOOP"

\* The execution record with the id of the exchange's reply dropped for the
\* time-based one.
ExecutionRecordFallbackId(side, zar, usdt, order_id, created_at) ==
  [client_id   |-> "auto",
   side        |-> side,
   pair        |-> PAIR,
   zar_amount  |-> IF side = "BUY" THEN zar ELSE 0 - 1,
   usdt_amount |-> IF side = "SELL" THEN usdt ELSE 0 - 1,
   exchange_order_id |-> <<"VALR-", clock>>,
   status      |-> "SUBMITTED",
   created_at  |-> created_at]

\* The record auto_trade hands to insert_execution (-1 stands for a None
\* amount).
ExecutionRecord(side, zar, usdt, order_id, created_at) ==
  [client_id   |-> "auto",
   side        |-> side,
   pair        |-> PAIR,
   zar_amount  |-> IF side = "BUY" THEN zar ELSE 0 - 1,
   usdt_amount |-> IF side = "SELL" THEN usdt ELSE 0 - 1,
   exchange_order_id |-> order_id,
   status      |-> "SUBMITTED",
   created_at  |-> created_at]

\* What auto_trade leaves behind when it does not reach its last return:
\* the "Missing env vars" reply, or an exception that leaves the handler.
TradeStopped(raised, zar, usdt, side, order_id) ==
  [op |-> "auto_trade", raised |-> raised, ok |-> FALSE, action |-> side,
   zar |-> zar, usdt |-> usdt, order_id |-> order_id, insert_ok |-> FALSE]

\* POST /valr/auto-trade.  valr_get and valr_post raise on a status of 300 or
\* more (raise_for_status) as on a transport error, and auto_trade catches
\* nothing.
auto_trade ==
  /\ UNCHANGED <<VALR_KEYS, valr_history, clock, deposits, withdrawals,
                 valr_deposits>>
  /\ IF ~VALR_KEYS
     THEN /\ lastOp' = TradeStopped(FALSE, 0, 0, None, None)
          /\ UNCHANGED <<valr_orders, executions>>
     ELSE \E balances \in HttpOutcomes, zar \in ZarBalances,
             usdt \in UsdtBalances :
       LET side == TradeSide(zar, usdt)
       IN
       IF balances # "accepted"
       THEN /\ lastOp' = TradeStopped(TRUE, 0, 0, None, None)
            /\ UNCHANGED <<valr_orders, executions>>
       ELSE IF side = "NOOP"
       THEN /\ lastOp' = [op |-> "auto_trade", raised |-> FALSE, ok |-> TRUE,
                          action |-> "NOOP", zar |-> zar, usdt |-> usdt,
                          order_id |-> None, insert_ok |-> FALSE]
            /\ UNCHANGED <<valr_orders, executions>>
       ELSE \E order \in HttpOutcomes :
         IF order # "accepted"
         THEN /\ lastOp' = TradeStopped(TRUE, zar, usdt, side, None)
              /\ UNCHANGED <<valr_orders, executions>>
         ELSE \E has_id \in BOOLEAN, insert \in HttpOutcomes :
           LET payload  == [pair |-> PAIR, side |-> side,
                            amount |-> IF side = "BUY" THEN zar ELSE usdt]
               \* resp.get("id") or resp.get("orderId") or f"VALR-{int(time.time())}"
               order_id == IF has_id
                           THEN <<"id", Len(valr_orders) + 1>>
                           ELSE <<"VALR-", clock>>
               record   == ExecutionRecord(side, zar, usdt, order_id,
                                           UtcNow(executions))
           IN  /\ Len(valr_orders) < MaxOrders
               /\ valr_orders' = Append(valr_orders, payload)
               /\ executions' = IF insert = "accepted"
                                THEN Insert(executions, record)
                                ELSE executions
               /\ lastOp' =
                    IF insert = "raised"
                    THEN TradeStopped(TRUE, zar, usdt, side, order_id)
                    ELSE [op |-> "auto_trade", raised |-> FALSE, ok |-> TRUE,
                          action |-> side, zar |-> zar, usdt |-> usdt,
                          order_id |-> order_id,
                          insert_ok |-> insert = "accepted"]

\* ---------------------------------------------------------- specifications
Next ==
  \/ Tick
  \/ handle_stitch_webhook
  \/ handle_withdraw_request
  \/ get_valr_deposits
  \/ auto_trade

Spec == Init /\ [][Next]_vars

\* The deposit intake and the matching run alone.
NextMatch == handle_stitch_webhook \/ get_valr_deposits

SpecMatch == Init /\ [][NextMatch]_vars

\* The deposit intake, the matching run and the order placement.
NextExchange == Tick \/ handle_stitch_webhook \/ get_valr_deposits \/ auto_trade

SpecExchange == Init /\ [][NextExchange]_vars

\* The order placement alone.
NextTrade == Tick \/ auto_trade

SpecTrade == Init /\ [][NextTrade]_vars

\* The handlers that write the deposits, withdrawals and executions tables,
\* followed as long as the three tables hold no more than MaxRows rows
\* together.
RowsWithinBound ==
  Len(deposits) + Len(withdrawals) + Len(executions) <= MaxRows

NextRows ==
  \/ handle_stitch_webhook /\ RowsWithinBound'
  \/ handle_withdraw_request /\ RowsWithinBound'
  \/ auto_trade /\ RowsWithinBound'

SpecRows == Init /\ [][NextRows]_vars

\* The matching run over one stored deposit and one VALR credit, with amounts
\* on both sides of the tolerance boundary delivered to handle_stitch_webhook
\* and reported by VALR.
BoundaryDeposits == {805, 10000}

BoundaryOffsets == 495..505

InitTolerance ==
  /\ VALR_KEYS = TRUE
  /\ \E a \in BoundaryDeposits, k \in BoundaryOffsets, up \in BOOLEAN :
       /\ deposits = <<[client_id |-> "c1", amount_zar |-> a,
                        stitch_txid |-> "tx1", timestamp |-> 1,
                        status |-> "completed"]>>
       /\ valr_history = {Credit("v1", IF up THEN a + k ELSE a - k)}
  /\ valr_orders = <<>>
  /\ clock = 0
  /\ withdrawals = <<>>
  /\ valr_deposits = {}
  /\ executions = <<>>
  /\ lastOp = [op |-> "none"]

SpecTolerance == InitTolerance /\ [][get_valr_deposits]_vars

\* ------------------------------------------------------------------ claims
\* A step of handle_stitch_webhook, and of get_valr_deposits.
StitchStep == lastOp'.op = "handle_stitch_webhook" /\ clock' = clock

ValrStep == lastOp'.op = "get_valr_deposits" /\ clock' = clock

\* The rows of the deposits table carrying txid.
RowsWithTxid(table, txid) == {i \in DOMAIN table : table[i].stitch_txid = txid}

\* The last call was a matching run that read the deposits table and returned
\* ok: True.
MatchRunDone ==
  /\ lastOp.op = "get_valr_deposits"
  /\ lastOp.ok
  /\ lastOp.read = "accepted"

\* A notification Deposit Intake is to refuse.
Malformed(deposit) ==
  \/ deposit.amount_zar <= 0
  \/ deposit.client_id = ""
  \/ deposit.stitch_txid = ""

\* The rows of the deposits table that store the notification deposit.
RowsStoring(table, deposit) ==
  {i \in RowsWithTxid(table, deposit.stitch_txid) :
     /\ table[i].client_id = deposit.client_id
     /\ table[i].amount_zar = deposit.amount_zar}

\* C1: a well-formed Deposit-received notification that is already stored,
\* once delivered again and absorbed, leaves exactly one row with its
\* stitch_txid and returns that first row unchanged.
C1_IntakeIdempotent ==
  [][ (/\ StitchStep
       /\ lastOp'.ok
       /\ ~Malformed(lastOp'.req)
       /\ RowsStoring(deposits, lastOp'.req) # {})
      => /\ Cardinality(RowsWithTxid(deposits', lastOp'.req.stitch_txid)) = 1
         /\ \E i \in RowsStoring(deposits, lastOp'.req) :
              lastOp'.data = <<deposits[i]>> ]_vars

\* C2: no Deposit is claimed by two different fiat credits: any two stored
\* credit records matched to the same stitch_txid are the same credit.
C2_OneCreditPerDeposit ==
  \A a, b \in valr_deposits :
    (a.matched_stitch_txid # None /\ a.matched_stitch_txid = b.matched_stitch_txid)
    => a.valr_id = b.valr_id

\* C3: once a match is recorded, the matched Deposit has been moved to
\* funds_confirmed (or a later state): it is no longer as intake left it.
C3_MatchedDepositConfirmed ==
  \A r \in valr_deposits : \A i \in DOMAIN deposits :
    (r.matched_stitch_txid # None
       /\ deposits[i].stitch_txid = r.matched_stitch_txid
       /\ deposits[i].client_id = r.client_id)
    => deposits[i].status \in {"funds_confirmed", "matched"}

\* The deposits within tolerance of amount, and the oldest of them.
Candidates(amount) ==
  {i \in DOMAIN deposits : WithinTolerance(deposits[i].amount_zar, amount)}

Oldest(rows) ==
  CHOOSE i \in rows : \A j \in rows : deposits[i].timestamp <= deposits[j].timestamp

\* C4: over well-formed Deposits, a credit with candidates is matched to the
\* oldest Deposit within tolerance, whatever order the store returned the
\* Deposits in.
C4_OldestFirst ==
  (MatchRunDone /\ \A i \in DOMAIN deposits : ~Malformed(deposits[i])) =>
    \A rec \in lastOp.valr_deposits :
      Candidates(rec.amount) # {} =>
        /\ rec.matched_stitch_txid = deposits[Oldest(Candidates(rec.amount))].stitch_txid
        /\ rec.client_id = deposits[Oldest(Candidates(rec.amount))].client_id

\* C5: a credit is matched exactly when some Deposit's amount differs from its
\* own by at most 5.00 (500 cents), the boundary included.
C5_ToleranceInclusive ==
  MatchRunDone =>
    \A rec \in lastOp.valr_deposits :
      (rec.matched_stitch_txid # None)
      <=> (\E i \in DOMAIN deposits :
             Abs(deposits[i].amount_zar - rec.amount) <= TOLERANCE)

\* C6: once a credit id is stored, no later step changes the Deposit and the
\* client recorded for it.
C6_RedeliveryKeepsMatch ==
  [][ \A r \in valr_deposits : \A n \in valr_deposits' :
        n.valr_id = r.valr_id
        => /\ n.matched_stitch_txid = r.matched_stitch_txid
           /\ n.client_id = r.client_id ]_vars

C8_DepositStatus ==
  /\ \A i \in DOMAIN deposits :
       deposits[i].status \in {"received", "funds_confirmed", "matched", "expired"}
  /\ (lastOp.op = "handle_stitch_webhook" /\ lastOp.ok)
     => lastOp.data[1].status = "received"

\* C9: a notification with a non-positive amount or an empty client id or
\* txid is rejected and creates no Deposit row.
C9_MalformedRejected ==
  /\ (lastOp.op = "handle_stitch_webhook" /\ Malformed(lastOp.req))
     => (~lastOp.ok /\ lastOp.data = <<>>)
  /\ \A i \in DOMAIN deposits : ~Malformed(deposits[i])

\* C10: every execution row belongs to a Deposit that is in funds_confirmed or
\* a later state (the row's client_id is all it has to name one).
C10_ExchangeNeedsConfirmedDeposit ==
  \A j \in DOMAIN executions : \E i \in DOMAIN deposits :
    /\ deposits[i].client_id = executions[j].client_id
    /\ deposits[i].status \in {"funds_confirmed", "matched"}


\* A step of auto_trade.
TradeStep == lastOp'.op = "auto_trade" /\ clock' = clock

\* The last order of valr_orders' was submitted by this step.
OrderSubmitted ==
  /\ Len(valr_orders') = Len(valr_orders) + 1
  /\ SubSeq(valr_orders', 1, Len(valr_orders)) = valr_orders

\* The last row of executions' was written by this step.
RowWritten ==
  /\ Len(executions') = Len(executions) + 1
  /\ SubSeq(executions', 1, Len(executions)) = executions

\* C11: withdrawal ids and exchange order ids are idempotency keys: in every
\* reachable state no two withdrawal rows carry the same withdraw_txid and no
\* two execution rows carry the same exchange order id.
C11_OneRowPerKey ==
  /\ \A i, j \in DOMAIN withdrawals :
       withdrawals[i].withdraw_txid = withdrawals[j].withdraw_txid => i = j
  /\ \A i, j \in DOMAIN executions :
       executions[i].exchange_order_id = executions[j].exchange_order_id
         => i = j

\* C12: every state transition writes exactly one AuditEvent: in every
\* reachable state there are as many audit events as rows that the handlers
\* have created in the deposits, withdrawals and executions tables.
C12_OneAuditEventPerTransition ==
  Len(audit_events) = Len(deposits) + Len(withdrawals) + Len(executions)

\* C13: a failed exchange call in auto_trade (balances or order) does not
\* leave the operation as an unhandled exception: no call of auto_trade ends
\* by raising.
C13_ExchangeFailureHandled ==
  lastOp.op = "auto_trade" => ~lastOp.raised

\* C14: statuses never move back: in every step, each row of deposits,
\* withdrawals and executions is still stored afterwards with the status it
\* had before, so no status moves to an earlier state and a row seen as
\* completed is never seen in another state.
C14_StatusNeverMovesBack ==
  [][ /\ \A i \in DOMAIN deposits :
           i \in DOMAIN deposits' /\ deposits'[i].status = deposits[i].status
      /\ \A i \in DOMAIN withdrawals :
           /\ i \in DOMAIN withdrawals'
           /\ withdrawals'[i].status = withdrawals[i].status
      /\ \A i \in DOMAIN executions :
           /\ i \in DOMAIN executions'
           /\ executions'[i].status = executions[i].status ]_vars

\* Rows written by an earlier call are still there, with their status, after
\* later calls have written to the same tables.
C14_Witness ==
  /\ deposits # <<>> /\ deposits[1].status = "completed"
  /\ Len(withdrawals) = 2 /\ withdrawals[1].status = "pending"
  /\ Len(executions) = 1 /\ executions[1].status = "SUBMITTED"
  /\ lastOp.op = "handle_withdraw_request" /\ lastOp.ok

\* C15: a call of auto_trade submits at most one order.  An order it submits
\* is a BUY of all the ZAR read when ZAR >= MIN_ZAR, whatever the USDT
\* balance, and a SELL of all the USDT read only when ZAR < MIN_ZAR and
\* USDT >= MIN_USDT; a call that returns ok submitted the order its balances
\* call for; with both balances below their minimum it returns NOOP, and a
\* NOOP submits no order and writes no execution row.
C15_OneOrderByPriority ==
  [][ TradeStep =>
        LET zar  == lastOp'.zar
            usdt == lastOp'.usdt
            o    == valr_orders'[Len(valr_orders')]
            Buy  == /\ OrderSubmitted
                    /\ o = [pair |-> PAIR, side |-> "BUY", amount |-> zar]
            Sell == /\ OrderSubmitted
                    /\ o = [pair |-> PAIR, side |-> "SELL", amount |-> usdt]
        IN  /\ \/ valr_orders' = valr_orders
               \/ Buy /\ zar >= MIN_ZAR
               \/ Sell /\ zar < MIN_ZAR /\ usdt >= MIN_USDT
            /\ lastOp'.ok /\ zar >= MIN_ZAR => Buy /\ lastOp'.action = "BUY"
            /\ lastOp'.ok /\ zar < MIN_ZAR /\ usdt >= MIN_USDT
                 => Sell /\ lastOp'.action = "SELL"
            /\ lastOp'.ok /\ zar < MIN_ZAR /\ usdt < MIN_USDT
                 => lastOp'.action = "NOOP"
            /\ lastOp'.action = "NOOP"
                 => /\ zar < MIN_ZAR /\ usdt < MIN_USDT
                    /\ UNCHANGED <<valr_orders, executions>> ]_vars

\* auto_trade bought with a USDT balance that alone would have been sold.
C15_Witness ==
  /\ lastOp.op = "auto_trade" /\ lastOp.ok /\ lastOp.action = "BUY"
  /\ lastOp.usdt >= MIN_USDT
  /\ valr_orders # <<>>
  /\ valr_orders[Len(valr_orders)] =
       [pair |-> PAIR, side |-> "BUY", amount |-> lastOp.zar]

\* The execution row of the order this step submitted is the last row of
\* executions'.
RowOfOrder ==
  /\ RowWritten
  /\ executions'[Len(executions')].exchange_order_id = lastOp'.order_id
  /\ executions'[Len(executions')].side = lastOp'.action

\* C16, as stated: an order that auto_trade submitted has its execution row
\* when auto_trade returns ok: True, and an execution row is written only
\* by a call whose order POST succeeded.
C16_OrderHasRowWhenOk ==
  [][ TradeStep =>
        /\ lastOp'.ok /\ OrderSubmitted => RowOfOrder
        /\ executions' # executions => OrderSubmitted /\ RowWritten ]_vars

\* C16, amended: the execution row is there when auto_trade returns ok: True
\* and reports supabase_insert.ok true; with supabase_insert.ok false no row
\* was written.  An execution row is written only by a call whose order POST
\* succeeded.
C16_OrderHasRowWhenInsertOk ==
  [][ TradeStep =>
        /\ lastOp'.ok /\ OrderSubmitted /\ lastOp'.insert_ok => RowOfOrder
        /\ lastOp'.ok /\ ~lastOp'.insert_ok => executions' = executions
        /\ executions' # executions => OrderSubmitted /\ RowWritten ]_vars

\* auto_trade returned ok: True with supabase_insert.ok true for an order
\* whose row is stored.
C16_Witness ==
  /\ lastOp.op = "auto_trade" /\ lastOp.ok /\ lastOp.insert_ok
  /\ valr_orders # <<>>
  /\ \E i \in DOMAIN executions :
       executions[i].exchange_order_id = lastOp.order_id

\* C17: when get_valr_deposits returns ok: True with inserted = n, the n
\* records it returns, one per fetched VALR deposit, are rows of
\* valr_deposits.
C17_InsertedArePersisted ==
  lastOp.op = "get_valr_deposits" /\ lastOp.ok
    => /\ lastOp.inserted = Cardinality(lastOp.valr_deposits)
       /\ lastOp.valr_deposits \subseteq valr_deposits

====
